---- MODULE Spec2Model ----
(***************************************************************************)
(* micrograd.rs: scalar reverse-mode automatic differentiation (grad.rs)   *)
(* and the training driver built on it (main.rs).                          *)
(*                                                                         *)
(* The heap of Rc<RefCell<Param>> allocations is the sequence `nodes`; a   *)
(* Node handle is an index into it, so two handles are the same            *)
(* allocation exactly when they are the same index.                        *)
(***************************************************************************)
EXTENDS Integers, Sequences, FiniteSets, TLC

VARIABLES
    nodes,      \* the heap: nodes[h] is the Param behind handle h
    net,        \* the MLP: layers of neurons, each [n_in, w, b] of handles
    pc,         \* the driver's position
    root,       \* the node backward_pass was (or is about to be) called on
    stack,      \* backward_pass activation records, innermost last
    calls,      \* calls[h]: backward_pass invocations on h in the current pass
    lastCall,   \* the last public operation performed, with its arguments
    env         \* the driver's local variables (main.rs)

vars == <<nodes, net, pc, root, stack, calls, lastCall, env>>

(***************************************************************************)
(* f64 values.  A value is an exact rational <<n, d>> in lowest terms with *)
(* d > 0; sums and products are exact (rounding is not modelled).          *)
(***************************************************************************)
Abs(a) == IF a < 0 THEN -a ELSE a

RECURSIVE GCD(_, _)
GCD(a, b) == IF b = 0 THEN a ELSE GCD(b, a % b)

Norm(n, d) ==
    LET g == GCD(Abs(n), Abs(d))
        s == IF d < 0 THEN -1 ELSE 1
    IN  <<(s * n) \div g, (s * d) \div g>>

Rat(n) == <<n, 1>>
Zero == Rat(0)
One == Rat(1)

RAdd(a, b) ==
    LET g == GCD(a[2], b[2])
        l == (a[2] \div g) * b[2]
    IN  Norm(a[1] * (l \div a[2]) + b[1] * (l \div b[2]), l)

RMul(a, b) ==
    LET g1 == GCD(Abs(a[1]), b[2])
        g2 == GCD(Abs(b[1]), a[2])
    IN  Norm((a[1] \div g1) * (b[1] \div g2), (a[2] \div g2) * (b[2] \div g1))

RNeg(a) == <<-a[1], a[2]>>
RSub(a, b) == RAdd(a, RNeg(b))
RLess(a, b) == a[1] * b[2] < b[1] * a[2]

\* f64::clamp(self, min, max)
RClamp(x, lo, hi) == IF RLess(x, lo) THEN lo ELSE IF RLess(hi, x) THEN hi ELSE x

(***************************************************************************)
(* f64::tanh, to the nearest quarter: an odd step function whose steps lie *)
(* at atanh(1/8), atanh(3/8), atanh(5/8), atanh(7/8), and which saturates  *)
(* at 1 as f64::tanh does for large arguments.                             *)
(***************************************************************************)
TanhSteps == << <<1, 8>>, <<39, 100>>, <<73, 100>>, <<27, 20>> >>

RTanh(x) ==
    LET a == <<Abs(x[1]), x[2]>>
        k == Cardinality({j \in 1..Len(TanhSteps) : RLess(TanhSteps[j], a)})
    IN  Norm((IF x[1] < 0 THEN -k ELSE k), Len(TanhSteps))

(***************************************************************************)
(* Node construction (grad.rs 28-57, 109-137).  Each operator returns the  *)
(* heap after the call; the handle returned by the call is the last index. *)
(***************************************************************************)
Param(val, children, op) ==
    [val |-> val, grad |-> Zero, children |-> children, op |-> op]

\* Node::new
new(ns, val) == Append(ns, Param(val, <<>>, "None"))

\* impl Add for Node
add(ns, a, b) == Append(ns, Param(RAdd(ns[a].val, ns[b].val), <<a, b>>, "Add"))

\* impl Mul for Node
mul(ns, a, b) == Append(ns, Param(RMul(ns[a].val, ns[b].val), <<a, b>>, "Mul"))

\* Node::tanh
tanh(ns, a) == Append(ns, Param(RTanh(ns[a].val), <<a>>, "Tanh"))

\* Node::square: both operands are clones of the same handle
square(ns, a) == mul(ns, a, a)

\* impl Sub for Node: self + other * Node::new(-1.0)
sub(ns, a, b) ==
    LET n1 == new(ns, Rat(-1))
        n2 == mul(n1, b, Len(n1))
    IN  add(n2, a, Len(n2))

\* a set_grad that also overwrites the value
SetGradAndVal(ns, h, g) == [ns EXCEPT ![h].grad = g, ![h].val = g]

\* Node::set_grad
set_grad(ns, h, g) == [ns EXCEPT ![h].grad = g]

(***************************************************************************)
(* Node::backward_pass (grad.rs 59-107).  One invocation applies the local *)
(* rule of the node's op and then calls backward_pass on each child in     *)
(* order.  The recursion is kept as an explicit stack of activation        *)
(* records [node, i]: i is the position of the next child to call.         *)
(***************************************************************************)
\* Op::Add: each child in turn reads its own grad and writes it back + grad
RECURSIVE AddRule(_, _, _, _)
AddRule(ns, children, k, grad) ==
    IF k > Len(children) THEN ns
    ELSE LET c == children[k]
             old_grad == ns[c].grad
         IN  AddRule(set_grad(ns, c, RAdd(old_grad, grad)), children, k + 1, grad)

\* Op::Mul: both old grads are read before either child is written
MulRule(ns, children, grad) ==
    IF Len(children) = 2
    THEN LET val0 == ns[children[1]].val
             val1 == ns[children[2]].val
             old_grad0 == ns[children[1]].grad
             old_grad1 == ns[children[2]].grad
             ns1 == set_grad(ns, children[1], RAdd(old_grad0, RMul(val1, grad)))
         IN  set_grad(ns1, children[2], RAdd(old_grad1, RMul(val0, grad)))
    ELSE ns

\* Op::Tanh: the first child gets (1 - val * val) * grad added
TanhRule(ns, h) ==
    IF Len(ns[h].children) >= 1
    THEN LET child == ns[h].children[1]
             val == ns[h].val
             der == RSub(One, RMul(val, val))
             old_grad == ns[child].grad
         IN  set_grad(ns, child, RAdd(old_grad, RMul(der, ns[h].grad)))
    ELSE ns

\* the match on node.op
LocalRule(ns, h) ==
    CASE ns[h].op = "Add" -> AddRule(ns, ns[h].children, 1, ns[h].grad)
      [] ns[h].op = "Mul" -> MulRule(ns, ns[h].children, ns[h].grad)
      [] ns[h].op = "Tanh" -> TanhRule(ns, h)
      [] ns[h].op = "None" -> ns

Frame(h) == [node |-> h, i |-> 1]

Top == stack[Len(stack)]
Pop(s) == SubSeq(s, 1, Len(s) - 1)
\* a loop that never moves on to the next child
AdvanceStuck(s) == s
Advance(s) == [s EXCEPT ![Len(s)].i = @ + 1]

\* the driver's call: root.backward_pass()
BackwardCall ==
    /\ pc = "seeded"
    /\ nodes' = LocalRule(nodes, root)
    /\ stack' = <<Frame(root)>>
    /\ calls' = [h \in 1..Len(nodes) |-> IF h = root THEN 1 ELSE 0]
    /\ pc' = "backward"
    /\ lastCall' = [op |-> "backward_pass", args |-> <<root>>]
    /\ UNCHANGED <<net, root, env>>

\* a pass that keeps a visited-set: a child already entered is skipped
BackwardRecurseVisited ==
    /\ pc = "backward"
    /\ stack # <<>>
    /\ Top.i <= Len(nodes[Top.node].children)
    /\ LET child == nodes[Top.node].children[Top.i]
       IN  IF calls[child] > 0
           THEN /\ stack' = Advance(stack)
                /\ UNCHANGED <<nodes, calls>>
           ELSE /\ nodes' = LocalRule(nodes, child)
                /\ stack' = Append(Advance(stack), Frame(child))
                /\ calls' = [calls EXCEPT ![child] = @ + 1]
    /\ UNCHANGED <<net, pc, root, lastCall, env>>

\* for child in children { child.backward_pass() }: the next child is called
BackwardRecurse ==
    /\ pc = "backward"
    /\ stack # <<>>
    /\ Top.i <= Len(nodes[Top.node].children)
    /\ LET child == nodes[Top.node].children[Top.i]
       IN  /\ nodes' = LocalRule(nodes, child)
           /\ stack' = Append(Advance(stack), Frame(child))
           /\ calls' = [calls EXCEPT ![child] = @ + 1]
    /\ UNCHANGED <<net, pc, root, lastCall, env>>

\* the loop over the children is over: this invocation returns
BackwardReturn ==
    /\ pc = "backward"
    /\ stack # <<>>
    /\ Top.i > Len(nodes[Top.node].children)
    /\ stack' = Pop(stack)
    /\ pc' = IF Len(stack) = 1 THEN "returned" ELSE "backward"
    /\ UNCHANGED <<nodes, net, root, calls, lastCall, env>>

(***************************************************************************)
(* Graph construction by a caller of the public Node operations, followed  *)
(* by one seeded backward pass (the use main.rs 57-71 makes of them).      *)
(***************************************************************************)
MaxNodes == 4
MaxAbs == 16

LeafVals == {Rat(-1), Rat(2)}

\* every value of the heap lies within the range the model's integers carry
InRange(ns) == \A h \in 1..Len(ns) : Abs(ns[h].val[1]) <= MaxAbs /\ ns[h].val[2] <= MaxAbs

Handles == 1..Len(nodes)

NoEnv == [phase |-> "none"]

InitGraph ==
    /\ nodes = <<>>
    /\ net = <<>>
    /\ pc = "build"
    /\ root = 0
    /\ stack = <<>>
    /\ calls = <<>>
    /\ lastCall = [op |-> "none", args |-> <<>>]
    /\ env = NoEnv

Built(ns, op, args) ==
    /\ pc = "build"
    /\ Len(ns) <= MaxNodes
    /\ InRange(ns)
    /\ nodes' = ns
    /\ lastCall' = [op |-> op, args |-> args]
    /\ UNCHANGED <<net, pc, root, stack, calls, env>>

CallNew == \E v \in LeafVals : Built(new(nodes, v), "new", <<v>>)

CallAdd == \E a, b \in Handles : Built(add(nodes, a, b), "add", <<a, b>>)

CallMul == \E a, b \in Handles : Built(mul(nodes, a, b), "mul", <<a, b>>)

CallSub == \E a, b \in Handles : Built(sub(nodes, a, b), "sub", <<a, b>>)

CallSquare == \E a \in Handles : Built(square(nodes, a), "square", <<a>>)

CallTanh == \E a \in Handles : Built(tanh(nodes, a), "tanh", <<a>>)

\* r.set_grad(1.0) on the node the pass will start from
Seed ==
    /\ pc = "build"
    /\ \E r \in Handles :
          /\ nodes' = set_grad(nodes, r, One)
          /\ root' = r
          /\ lastCall' = [op |-> "set_grad", args |-> <<r, One>>]
    /\ pc' = "seeded"
    /\ UNCHANGED <<net, stack, calls, env>>

NextGraph ==
    \/ CallNew
    \/ CallAdd
    \/ CallMul
    \/ CallSub
    \/ CallSquare
    \/ CallTanh
    \/ Seed
    \/ BackwardCall
    \/ BackwardRecurse
    \/ BackwardReturn

SpecGraph == InitGraph /\ [][NextGraph]_vars

(***************************************************************************)
(* The composite expression                                                *)
(*   loss = square(sub(tanh(add(mul(w, x), b)), target))                   *)
(* over four fresh leaves (operand for operand the loss main.rs 56-59      *)
(* builds for a neuron of one input), seeded with 1 and passed backwards.  *)
(***************************************************************************)
CompositeVals == {Rat(-1), <<1, 2>>, Rat(2)}

InitComposite ==
    /\ nodes = <<>>
    /\ net = <<>>
    /\ pc = "leaves"
    /\ root = 0
    /\ stack = <<>>
    /\ calls = <<>>
    /\ lastCall = [op |-> "none", args |-> <<>>]
    /\ env = NoEnv

\* w, x, b, target: Node::new four times
CompositeLeaves ==
    /\ pc = "leaves"
    /\ \E w, x, b, target \in CompositeVals :
          /\ nodes' = new(new(new(new(nodes, w), x), b), target)
          /\ env' = [phase |-> "composite", w |-> 1, x |-> 2, b |-> 3, target |-> 4]
          /\ lastCall' = [op |-> "new", args |-> <<w, x, b, target>>]
    /\ pc' = "expr"
    /\ UNCHANGED <<net, root, stack, calls>>

CompositeLoss ==
    /\ pc = "expr"
    /\ LET n1 == mul(nodes, env.w, env.x)
           n2 == add(n1, Len(n1), env.b)
           n3 == tanh(n2, Len(n2))
           n4 == sub(n3, Len(n3), env.target)
           n5 == square(n4, Len(n4))
       IN  /\ nodes' = n5
           /\ env' = [env EXCEPT !.phase = "loss"] @@ [out |-> Len(n3), loss |-> Len(n5)]
           /\ lastCall' = [op |-> "square", args |-> <<Len(n4)>>]
    /\ pc' = "loss"
    /\ UNCHANGED <<net, root, stack, calls>>

\* loss.set_grad(1.0)
SeedLoss ==
    /\ pc = "loss"
    /\ nodes' = set_grad(nodes, env.loss, One)
    /\ root' = env.loss
    /\ lastCall' = [op |-> "set_grad", args |-> <<env.loss, One>>]
    /\ pc' = "seeded"
    /\ UNCHANGED <<net, stack, calls, env>>

NextComposite ==
    \/ CompositeLeaves
    \/ CompositeLoss
    \/ SeedLoss
    \/ BackwardCall
    \/ BackwardRecurse
    \/ BackwardReturn

SpecComposite == InitComposite /\ [][NextComposite]_vars

(***************************************************************************)
(* Neuron, Layer, MLP (grad.rs 141-283).                                   *)
(*                                                                         *)
(* rand::thread_rng() is a stream of draws from -0.1..0.1: Gen(s, k) is    *)
(* the k-th draw of stream s.                                              *)
(***************************************************************************)
InitVals == << <<-1, 10>>, <<1, 20>>, <<3, 50>> >>
NStreams == 2

Gen(s, k) == InitVals[((s * k) % Len(InitVals)) + 1]

\* Neuron::new: n_in weights, then the bias, each a fresh leaf; `k` draws
\* of stream s have been made before
RECURSIVE NewLeaves(_, _, _, _)
NewLeaves(ns, s, k, n) ==
    IF n = 0 THEN ns ELSE NewLeaves(new(ns, Gen(s, k + 1)), s, k + 1, n - 1)

Neuron_new(ns, n_in, s, k) ==
    [ns |-> NewLeaves(ns, s, k, n_in + 1),
     neuron |-> [n_in |-> n_in,
                 w |-> [i \in 1..n_in |-> Len(ns) + i],
                 b |-> Len(ns) + n_in + 1]]

\* Neuron::forward.  The loop runs i over 0..n_in and indexes w[i] and x[i]:
\* an index past the end of either panics, and the call returns nothing.
\* a loop that runs i over the inputs instead: 0..x.len()
RECURSIVE ForwardLoopInputs(_, _, _, _, _)
ForwardLoopInputs(ns, neuron, x, i, act) ==
    IF i > Len(x) THEN [ok |-> TRUE, ns |-> ns, act |-> act]
    ELSE IF i > Len(neuron.w) THEN [ok |-> FALSE, ns |-> ns, act |-> act]
    ELSE LET n1 == mul(ns, neuron.w[i], x[i])
             n2 == add(n1, act, Len(n1))
         IN  ForwardLoopInputs(n2, neuron, x, i + 1, Len(n2))

RECURSIVE ForwardLoop(_, _, _, _, _)
ForwardLoop(ns, neuron, x, i, act) ==
    IF i > neuron.n_in THEN [ok |-> TRUE, ns |-> ns, act |-> act]
    ELSE IF i > Len(neuron.w) \/ i > Len(x) THEN [ok |-> FALSE, ns |-> ns, act |-> act]
    ELSE LET weight == neuron.w[i]
             input == x[i]
             n1 == mul(ns, weight, input)
             n2 == add(n1, act, Len(n1))
         IN  ForwardLoop(n2, neuron, x, i + 1, Len(n2))

Neuron_forward(ns, neuron, x) ==
    LET r == ForwardLoop(ns, neuron, x, 1, neuron.b)
    IN  IF r.ok
        THEN [ok |-> TRUE, ns |-> tanh(r.ns, r.act), out |-> Len(r.ns) + 1]
        ELSE [ok |-> FALSE, ns |-> ns, out |-> 0]

\* Neuron::update_params: val -= learning_rate * grad.clamp(-1, 1), for each
\* weight and then for the bias
clip_value == One

\* an update that uses the gradient as it is
StepUnclipped(ns, h, learning_rate) ==
    [ns EXCEPT ![h].val = RSub(@, RMul(learning_rate, ns[h].grad))]

Step(ns, h, learning_rate) ==
    LET grad == RClamp(ns[h].grad, RNeg(clip_value), clip_value)
    IN  [ns EXCEPT ![h].val = RSub(@, RMul(learning_rate, grad))]

RECURSIVE StepAll(_, _, _, _)
StepAll(ns, hs, k, learning_rate) ==
    IF k > Len(hs) THEN ns
    ELSE StepAll(Step(ns, hs[k], learning_rate), hs, k + 1, learning_rate)

Neuron_update_params(ns, neuron, learning_rate) ==
    Step(StepAll(ns, neuron.w, 1, learning_rate), neuron.b, learning_rate)

\* Neuron::zero_grad
RECURSIVE ZeroAll(_, _, _)
ZeroAll(ns, hs, k) ==
    IF k > Len(hs) THEN ns ELSE ZeroAll(set_grad(ns, hs[k], Zero), hs, k + 1)

\* a zero_grad that forgets the bias
NeuronZeroWeights(ns, neuron) == ZeroAll(ns, neuron.w, 1)

Neuron_zero_grad(ns, neuron) == set_grad(ZeroAll(ns, neuron.w, 1), neuron.b, Zero)

\* the handles a neuron owns
NeuronParams(neuron) == {neuron.w[i] : i \in 1..Len(neuron.w)} \cup {neuron.b}

\* Layer::new: n_out neurons of n_in inputs each
RECURSIVE Layer_new(_, _, _, _, _)
Layer_new(ns, n_in, n_out, s, k) ==
    IF n_out = 0 THEN [ns |-> ns, layer |-> [n_in |-> n_in, n_out |-> 0, neurons |-> <<>>]]
    ELSE LET l == Layer_new(ns, n_in, n_out - 1, s, k)
             r == Neuron_new(l.ns, n_in, s, k + (n_out - 1) * (n_in + 1))
         IN  [ns |-> r.ns,
              layer |-> [n_in |-> n_in, n_out |-> n_out,
                         neurons |-> Append(l.layer.neurons, r.neuron)]]

\* MLP::new: Layer::new(n_in, n_outs[0]), then Layer::new(n_outs[i-1], n_outs[i])
RECURSIVE MLP_layers(_, _, _, _, _)
MLP_layers(ns, n_in, n_outs, i, s) ==
    IF i = 0 THEN [ns |-> ns, layers |-> <<>>]
    ELSE LET m == MLP_layers(ns, n_in, n_outs, i - 1, s)
             fan_in == IF i = 1 THEN n_in ELSE n_outs[i - 1]
             r == Layer_new(m.ns, fan_in, n_outs[i], s, Len(m.ns) - Len(ns))
         IN  [ns |-> r.ns, layers |-> Append(m.layers, r.layer)]

MLP_new(ns, n_in, n_outs, s) ==
    LET m == MLP_layers(ns, n_in, n_outs, Len(n_outs), s)
    IN  [ns |-> m.ns, mlp |-> [n_in |-> n_in, n_outs |-> n_outs, layers |-> m.layers]]

\* Layer::forward: neurons[i].forward(x.clone()) for i in 0..n_out
RECURSIVE Layer_forward(_, _, _, _)
Layer_forward(ns, layer, x, i) ==
    IF i = 0 THEN [ok |-> TRUE, ns |-> ns, outputs |-> <<>>]
    ELSE LET l == Layer_forward(ns, layer, x, i - 1)
             r == Neuron_forward(l.ns, layer.neurons[i], x)
         IN  IF l.ok /\ r.ok
             THEN [ok |-> TRUE, ns |-> r.ns, outputs |-> Append(l.outputs, r.out)]
             ELSE [ok |-> FALSE, ns |-> ns, outputs |-> <<>>]

\* MLP::forward: outputs = layer.forward(outputs), layer after layer
RECURSIVE MLP_forward(_, _, _, _)
MLP_forward(ns, mlp, x, i) ==
    IF i = 0 THEN [ok |-> TRUE, ns |-> ns, outputs |-> x]
    ELSE LET m == MLP_forward(ns, mlp, x, i - 1)
         IN  IF m.ok THEN Layer_forward(m.ns, mlp.layers[i], m.outputs, mlp.layers[i].n_out)
             ELSE m

\* Layer::update_params, MLP::update_params
RECURSIVE Layer_update_params(_, _, _, _)
Layer_update_params(ns, layer, i, step_size) ==
    IF i > Len(layer.neurons) THEN ns
    ELSE Layer_update_params(Neuron_update_params(ns, layer.neurons[i], step_size),
                             layer, i + 1, step_size)

RECURSIVE MLP_update_params(_, _, _, _)
MLP_update_params(ns, mlp, i, step_size) ==
    IF i > Len(mlp.layers) THEN ns
    ELSE MLP_update_params(Layer_update_params(ns, mlp.layers[i], 1, step_size),
                           mlp, i + 1, step_size)

\* Layer::zero_grad, MLP::zero_grad
RECURSIVE Layer_zero_grad(_, _, _)
Layer_zero_grad(ns, layer, i) ==
    IF i > Len(layer.neurons) THEN ns
    ELSE Layer_zero_grad(Neuron_zero_grad(ns, layer.neurons[i]), layer, i + 1)

\* a zero_grad that stops after the first layer
MLPZeroFirstLayer(ns, mlp, i) ==
    IF i > Len(mlp.layers) THEN ns ELSE Layer_zero_grad(ns, mlp.layers[1], 1)

RECURSIVE MLP_zero_grad(_, _, _)
MLP_zero_grad(ns, mlp, i) ==
    IF i > Len(mlp.layers) THEN ns
    ELSE MLP_zero_grad(Layer_zero_grad(ns, mlp.layers[i], 1), mlp, i + 1)

\* the handles of every weight and bias of the network
MLPParams(mlp) ==
    UNION {UNION {NeuronParams(mlp.layers[l].neurons[j]) :
                     j \in 1..Len(mlp.layers[l].neurons)} : l \in 1..Len(mlp.layers)}

(***************************************************************************)
(* A caller of one Neuron's public interface: its constructor, forward on  *)
(* input vectors of any length, set_grad on its public w and b,            *)
(* update_params and zero_grad.                                            *)
(***************************************************************************)
MaxIn == 2
MaxCalls == 3

InputVals == <<Rat(1), <<1, 2>>, Rat(-1)>>
InputVecs == {1, 2}
InputVec(v, len) == [i \in 1..len |-> InputVals[((v * i) % Len(InputVals)) + 1]]
GradVals == {Rat(5), Rat(-5), <<1, 2>>}
Rates == {<<1, 10>>, One}

InitNeuron ==
    \E n_in \in 0..MaxIn, s \in 1..NStreams :
        LET r == Neuron_new(<<>>, n_in, s, 0)
        IN  /\ nodes = r.ns
            /\ net = r.neuron
            /\ pc = "api"
            /\ root = 0
            /\ stack = <<>>
            /\ calls = <<>>
            /\ lastCall = [op |-> "Neuron::new", args |-> <<n_in>>]
            /\ env = [phase |-> "neuron", ncalls |-> 0, x |-> <<>>, out |-> 0]

Called(op, args) ==
    /\ pc = "api"
    /\ env.ncalls < MaxCalls
    /\ lastCall' = [op |-> op, args |-> args]
    /\ UNCHANGED <<net, root, stack, calls>>

\* the caller's input leaves: Node::new for each component
RECURSIVE InputLeaves(_, _, _)
InputLeaves(ns, vals, k) ==
    IF k > Len(vals) THEN ns ELSE InputLeaves(new(ns, vals[k]), vals, k + 1)

\* let x = [Node::new(..), ..]; let out = neuron.forward(x);
\* the graph of an earlier call has gone out of scope
CallForward ==
    \E v \in InputVecs, len \in 0..(MaxIn + 1) :
        LET params == SubSeq(nodes, 1, net.n_in + 1)
            n1 == InputLeaves(params, InputVec(v, len), 1)
            x == [i \in 1..len |-> Len(params) + i]
            r == Neuron_forward(n1, net, x)
        IN  /\ Called("forward", x)
            /\ nodes' = IF r.ok THEN r.ns ELSE n1
            /\ pc' = IF r.ok THEN "api" ELSE "panicked"
            /\ env' = [env EXCEPT !.ncalls = @ + 1, !.x = x, !.out = r.out]

\* neuron.w[i].set_grad(g) or neuron.b.set_grad(g)
CallSetGrad ==
    \E h \in NeuronParams(net), g \in GradVals :
        /\ Called("set_grad", <<h, g>>)
        /\ nodes' = set_grad(nodes, h, g)
        /\ env' = [env EXCEPT !.ncalls = @ + 1]
        /\ UNCHANGED pc

CallUpdateParams ==
    \E rate \in Rates :
        /\ Called("update_params", <<rate>>)
        /\ nodes' = Neuron_update_params(nodes, net, rate)
        /\ env' = [env EXCEPT !.ncalls = @ + 1]
        /\ UNCHANGED pc

CallZeroGrad ==
    /\ Called("zero_grad", <<>>)
    /\ nodes' = Neuron_zero_grad(nodes, net)
    /\ env' = [env EXCEPT !.ncalls = @ + 1]
    /\ UNCHANGED pc

NextNeuron ==
    \/ CallForward
    \/ CallSetGrad
    \/ CallUpdateParams
    \/ CallZeroGrad

SpecNeuron == InitNeuron /\ [][NextNeuron]_vars

(***************************************************************************)
(* A caller of a network's public interface: MLP::new(2, NetShape), then   *)
(* forward, set_grad on an output of the last forward pass, backward_pass  *)
(* on that output, and zero_grad, in any order.                            *)
(***************************************************************************)
NetShape == <<2, 1>>
MaxNetCalls == 4
NetGrads == {One, <<-1, 2>>}

InitNetwork ==
    \E s \in 1..NStreams :
        LET m == MLP_new(<<>>, 2, NetShape, s)
        IN  /\ nodes = m.ns
            /\ net = m.mlp
            /\ pc = "api"
            /\ root = 0
            /\ stack = <<>>
            /\ calls = <<>>
            /\ lastCall = [op |-> "MLP::new", args |-> <<2, NetShape>>]
            /\ env = [phase |-> "network", ncalls |-> 0, x |-> <<>>, outputs |-> <<>>]

NetCalled(op, args) ==
    /\ pc \in {"api", "seeded", "returned"}
    /\ env.ncalls < MaxNetCalls
    /\ lastCall' = [op |-> op, args |-> args]
    /\ UNCHANGED net

\* let outputs = mlp.forward(x) on fresh input leaves; the graph of an
\* earlier call has gone out of scope
NetForward ==
    \E v \in InputVecs :
        LET params == SubSeq(nodes, 1, Cardinality(MLPParams(net)))
            n1 == InputLeaves(params, InputVec(v, net.n_in), 1)
            x == [i \in 1..net.n_in |-> Len(params) + i]
            r == MLP_forward(n1, net, x, Len(net.layers))
        IN  /\ NetCalled("forward", x)
            /\ nodes' = IF r.ok THEN r.ns ELSE n1
            /\ pc' = IF r.ok THEN "api" ELSE "panicked"
            /\ env' = [env EXCEPT !.ncalls = @ + 1, !.x = x, !.outputs = r.outputs]
            /\ root' = 0
            /\ stack' = <<>>
            /\ calls' = <<>>

\* outputs[i].set_grad(g)
NetSetGrad ==
    \E i \in 1..Len(env.outputs), g \in NetGrads :
      LET h == env.outputs[i] IN
        /\ NetCalled("set_grad", <<h, g>>)
        /\ nodes' = set_grad(nodes, h, g)
        /\ root' = h
        /\ pc' = "seeded"
        /\ env' = [env EXCEPT !.ncalls = @ + 1]
        /\ UNCHANGED <<stack, calls>>

\* mlp.zero_grad()
NetZeroGrad ==
    /\ NetCalled("zero_grad", <<>>)
    /\ nodes' = MLP_zero_grad(nodes, net, 1)
    /\ pc' = "api"
    /\ env' = [env EXCEPT !.ncalls = @ + 1]
    /\ UNCHANGED <<root, stack, calls>>

NextNetwork ==
    \/ NetForward
    \/ NetSetGrad
    \/ BackwardCall
    \/ BackwardRecurse
    \/ BackwardReturn
    \/ NetZeroGrad

SpecNetwork == InitNetwork /\ [][NextNetwork]_vars

(***************************************************************************)
(* main (main.rs 7-87): the network, the data, and the training loop, one  *)
(* statement of the per-example step at a time.  The network is            *)
(* MLP::new(2, LayerSizes); the data are the two classes' points, whose    *)
(* coordinates r * cos(t) + noise lie within -1.1..1.1.  The loop is       *)
(* followed for MaxExamples examples.  Console output is left out.         *)
(***************************************************************************)
LayerSizes == <<2>>
MaxExamples == 2
epochs == 200

Class0 == { <<<<1, 2>>, Rat(-1)>>, <<Rat(1), <<1, 4>>>> }
Class1 == { <<Rat(-1), Rat(1)>> }

DataSets ==
    { << [inputs |-> p0, targets |-> <<Zero>>], [inputs |-> p1, targets |-> <<One>>] >> :
          p0 \in Class0, p1 \in Class1 }

initial_learning_rate == <<3, 100>>

\* initial_learning_rate / (1.0 + epoch as f64 * 0.001)
LearningRate(epoch) == Norm(initial_learning_rate[1] * 1000, initial_learning_rate[2] * (1000 + epoch))

InitTrain ==
    \E s \in 1..NStreams, data \in DataSets :
        LET m == MLP_new(<<>>, 2, LayerSizes, s)
        IN  /\ nodes = m.ns
            /\ net = m.mlp
            /\ pc = "epoch"
            /\ root = 0
            /\ stack = <<>>
            /\ calls = <<>>
            /\ lastCall = [op |-> "MLP::new", args |-> <<2, LayerSizes>>]
            /\ env = [phase |-> "train", training_data |-> data, epoch |-> 0,
                      learning_rate |-> Zero, total_loss |-> Zero, todo |-> {},
                      idx |-> 0, x |-> <<>>, outputs |-> <<>>, expected |-> 0,
                      diff |-> 0, loss |-> 0, examples |-> 0]

\* for epoch in 0..epochs: the learning rate, total_loss = 0, the shuffle
TrainEpoch ==
    /\ pc = "epoch"
    /\ env.epoch < epochs
    /\ env' = [env EXCEPT !.learning_rate = LearningRate(env.epoch),
                          !.total_loss = Zero,
                          !.todo = 1..Len(env.training_data)]
    /\ pc' = "example"
    /\ UNCHANGED <<nodes, net, root, stack, calls, lastCall>>

\* for &idx in indices.iter(), in the order the shuffle chose; x: a fresh
\* leaf for each input
TrainInputs ==
    /\ pc = "example"
    /\ env.examples < MaxExamples
    /\ \E idx \in env.todo :
          LET inputs == env.training_data[idx].inputs
              n1 == InputLeaves(nodes, inputs, 1)
          IN  /\ nodes' = n1
              /\ env' = [env EXCEPT !.todo = @ \ {idx}, !.idx = idx,
                                    !.x = [i \in 1..Len(inputs) |-> Len(nodes) + i]]
              /\ lastCall' = [op |-> "new", args |-> inputs]
    /\ pc' = "forward"
    /\ UNCHANGED <<net, root, stack, calls>>

\* let outputs = mlp.forward(x)
TrainForward ==
    /\ pc = "forward"
    /\ LET r == MLP_forward(nodes, net, env.x, Len(net.layers))
       IN  /\ nodes' = r.ns
           /\ env' = [env EXCEPT !.outputs = r.outputs]
           /\ pc' = IF r.ok THEN "expected" ELSE "panicked"
    /\ lastCall' = [op |-> "forward", args |-> env.x]
    /\ UNCHANGED <<net, root, stack, calls>>

\* let expected = Node::new(targets[0])
TrainExpected ==
    /\ pc = "expected"
    /\ nodes' = new(nodes, env.training_data[env.idx].targets[1])
    /\ env' = [env EXCEPT !.expected = Len(nodes) + 1]
    /\ lastCall' = [op |-> "new", args |-> <<env.training_data[env.idx].targets[1]>>]
    /\ pc' = "diff"
    /\ UNCHANGED <<net, root, stack, calls>>

\* let diff = outputs[0].clone() - expected
TrainDiff ==
    /\ pc = "diff"
    /\ LET n1 == sub(nodes, env.outputs[1], env.expected)
       IN  /\ nodes' = n1
           /\ env' = [env EXCEPT !.diff = Len(n1)]
    /\ lastCall' = [op |-> "sub", args |-> <<env.outputs[1], env.expected>>]
    /\ pc' = "square"
    /\ UNCHANGED <<net, root, stack, calls>>

\* let loss = diff.square(); total_loss += loss.val()
TrainSquare ==
    /\ pc = "square"
    /\ LET n1 == square(nodes, env.diff)
       IN  /\ nodes' = n1
           /\ env' = [env EXCEPT !.loss = Len(n1),
                                 !.total_loss = RAdd(@, n1[Len(n1)].val)]
    /\ lastCall' = [op |-> "square", args |-> <<env.diff>>]
    /\ pc' = "loss"
    /\ UNCHANGED <<net, root, stack, calls>>

\* mlp.update_params(learning_rate)
TrainUpdateParams ==
    /\ pc = "returned"
    /\ nodes' = MLP_update_params(nodes, net, 1, env.learning_rate)
    /\ lastCall' = [op |-> "update_params", args |-> <<env.learning_rate>>]
    /\ pc' = "zero"
    /\ UNCHANGED <<net, root, stack, calls, env>>

\* mlp.zero_grad()
TrainZeroGrad ==
    /\ pc = "zero"
    /\ nodes' = MLP_zero_grad(nodes, net, 1)
    /\ lastCall' = [op |-> "zero_grad", args |-> <<>>]
    /\ pc' = "end"
    /\ UNCHANGED <<net, root, stack, calls, env>>

\* the end of the loop body: x, outputs, expected, diff and loss go out of
\* scope, and with them every node that is not a weight or a bias
TrainEndExample ==
    /\ pc = "end"
    /\ nodes' = SubSeq(nodes, 1, Cardinality(MLPParams(net)))
    /\ env' = [env EXCEPT !.x = <<>>, !.outputs = <<>>, !.expected = 0, !.diff = 0,
                          !.loss = 0, !.idx = 0, !.examples = @ + 1]
    /\ root' = 0
    /\ stack' = <<>>
    /\ calls' = <<>>
    /\ pc' = "example"
    /\ lastCall' = [op |-> "drop", args |-> <<>>]
    /\ UNCHANGED net

\* the indices are used up: stop early on a small average loss, else go on
\* to the next epoch
TrainEndEpoch ==
    /\ pc = "example"
    /\ env.todo = {}
    /\ LET n_points == Len(env.training_data) \div 2
           average == RMul(env.total_loss, <<1, 2 * n_points>>)
       IN  pc' = IF RLess(average, <<1, 100>>) THEN "done" ELSE "epoch"
    /\ env' = [env EXCEPT !.epoch = @ + 1]
    /\ UNCHANGED <<nodes, net, root, stack, calls, lastCall>>

NextTrain ==
    \/ TrainEpoch
    \/ TrainInputs
    \/ TrainForward
    \/ TrainExpected
    \/ TrainDiff
    \/ TrainSquare
    \/ SeedLoss
    \/ BackwardCall
    \/ BackwardRecurse
    \/ BackwardReturn
    \/ TrainUpdateParams
    \/ TrainZeroGrad
    \/ TrainEndExample
    \/ TrainEndEpoch

SpecTrain == InitTrain /\ [][NextTrain]_vars

(***************************************************************************)
(* What the graph says about a pass, computed from the child edges alone.  *)
(***************************************************************************)
\* the number of child-edge paths from `from` to `to`; a node listed twice
\* among one parent's children counts as two edges
RECURSIVE Paths(_, _, _)
Paths(ns, from, to) ==
    IF from = to THEN 1
    ELSE LET ch == ns[from].children
             RECURSIVE Sum(_)
             Sum(k) == IF k > Len(ch) THEN 0 ELSE Paths(ns, ch[k], to) + Sum(k + 1)
         IN  Sum(1)

Reachable(ns, r) == {h \in 1..Len(ns) : Paths(ns, r, h) > 0}

\* the number of child edges into h from the nodes reachable from r
EdgesInto(ns, r, h) ==
    LET Occ(p) == Cardinality({k \in 1..Len(ns[p].children) : ns[p].children[k] = h})
        RECURSIVE Sum(_)
        Sum(p) == IF p > Len(ns) THEN 0
                  ELSE (IF p \in Reachable(ns, r) THEN Occ(p) ELSE 0) + Sum(p + 1)
    IN  Sum(1)

\* the partial derivative of n's value with respect to the leaf x
RECURSIVE Deriv(_, _, _)
Deriv(ns, n, x) ==
    LET ch == ns[n].children IN
    CASE n = x -> One
      [] n # x /\ ns[n].op = "None" -> Zero
      [] n # x /\ ns[n].op = "Add" -> RAdd(Deriv(ns, ch[1], x), Deriv(ns, ch[2], x))
      [] n # x /\ ns[n].op = "Mul" ->
            RAdd(RMul(Deriv(ns, ch[1], x), ns[ch[2]].val),
                 RMul(ns[ch[1]].val, Deriv(ns, ch[2], x)))
      [] n # x /\ ns[n].op = "Tanh" ->
            RMul(RSub(One, RMul(ns[n].val, ns[n].val)), Deriv(ns, ch[1], x))

IsLeaf(ns, h) == ns[h].children = <<>>

(***************************************************************************)
(* C1.  For a leaf a with grad 0 and r = square(a): r.val = a.val * a.val, *)
(* and after r.set_grad(1) and r.backward_pass(), a.grad = 2 * a.val (both *)
(* product-rule contributions to the self-shared child are accumulated).   *)
(***************************************************************************)
IsSquareOfLeaf(ns, r) ==
    /\ ns[r].op = "Mul"
    /\ Len(ns[r].children) = 2
    /\ ns[r].children[1] = ns[r].children[2]
    /\ IsLeaf(ns, ns[r].children[1])

C1_SquareGrad ==
    (pc = "returned" /\ IsSquareOfLeaf(nodes, root)) =>
        LET a == nodes[root].children[1] IN
        /\ nodes[root].val = RMul(nodes[a].val, nodes[a].val)
        /\ nodes[a].grad = RMul(Rat(2), nodes[a].val)

(***************************************************************************)
(* C3.  For every graph of leaves, add and multiply in which no internal   *)
(* node below the root is a child more than once, after root.set_grad(1)   *)
(* and root.backward_pass() from all grads 0, every leaf's grad is the     *)
(* partial derivative of root.val with respect to that leaf.               *)
(***************************************************************************)
TreeShaped(ns, r) ==
    /\ \A h \in Reachable(ns, r) : ns[h].op \in {"None", "Add", "Mul"}
    /\ \A h \in Reachable(ns, r) \ {r} : ~IsLeaf(ns, h) => EdgesInto(ns, r, h) <= 1

C3_TreeGradient ==
    (pc = "returned" /\ TreeShaped(nodes, root)) =>
        \A x \in Reachable(nodes, root) :
            (IsLeaf(nodes, x) /\ x # root) => nodes[x].grad = Deriv(nodes, root, x)

(***************************************************************************)
(* C7.  During one backward_pass(root), backward_pass is invoked on each   *)
(* node exactly as many times as there are child-edge paths from root to   *)
(* it: once per incoming path, not once in total.                          *)
(***************************************************************************)
C7_CallsPerPath ==
    (pc = "returned") => \A h \in 1..Len(nodes) : calls[h] = Paths(nodes, root, h)

C7_Witness ==
    /\ pc = "returned"
    /\ \E h \in 1..Len(nodes) : calls[h] = 4 /\ nodes[h].op # "None"

(***************************************************************************)
(* C10.  backward_pass(root) returns for every graph the public operations *)
(* can build: a node's children exist before it does, so no node reaches   *)
(* itself; a pass that has not returned always has a pending invocation to *)
(* continue, and the finite count of steps left to it drops with every     *)
(* call and every return, so it reaches 0, where the pass has returned.    *)
(***************************************************************************)
Acyclic(ns) == \A h \in 1..Len(ns) : \A k \in 1..Len(ns[h].children) : ns[h].children[k] < h

\* the steps one invocation on h takes after it is entered: a call for each
\* child, all that the child's invocation takes, and its own return
RECURSIVE Work(_, _)
Work(ns, h) ==
    LET ch == ns[h].children
        RECURSIVE Sum(_)
        Sum(k) == IF k > Len(ch) THEN 0 ELSE 1 + Work(ns, ch[k]) + Sum(k + 1)
    IN  1 + Sum(1)

\* the steps left to the pending invocations
RECURSIVE Remaining(_, _)
Remaining(ns, s) ==
    IF s = <<>> THEN 0
    ELSE LET f == s[Len(s)]
             ch == ns[f.node].children
             RECURSIVE Sum(_)
             Sum(k) == IF k > Len(ch) THEN 0 ELSE 1 + Work(ns, ch[k]) + Sum(k + 1)
         IN  1 + Sum(f.i) + Remaining(ns, Pop(s))

C10_Terminates ==
    /\ [](Acyclic(nodes) /\ (pc = "backward" <=> stack # <<>>))
    /\ [][pc = "backward" => Remaining(nodes', stack') < Remaining(nodes, stack)]_vars

C10_Witness ==
    /\ pc = "returned"
    /\ \E h \in 1..Len(nodes) : calls[h] = 2 /\ nodes[h].op = "Tanh"

(***************************************************************************)
(* C2.  For loss = square(sub(tanh(add(mul(w, x), b)), target)) over fresh *)
(* leaves, after loss.set_grad(1) and loss.backward_pass(), w.grad is the  *)
(* derivative 2 * (out - target) * (1 - out^2) * x with out = tanh(w*x+b). *)
(***************************************************************************)
C2_CompositeGradient ==
    (pc = "returned" /\ env.phase = "loss") =>
        LET out == RTanh(RAdd(RMul(nodes[env.w].val, nodes[env.x].val), nodes[env.b].val))
            diff == RSub(out, nodes[env.target].val)
            der == RSub(One, RMul(out, out))
        IN  nodes[env.w].grad = RMul(Rat(2), RMul(diff, RMul(der, nodes[env.x].val)))

(***************************************************************************)
(* C4.  update_params(rate) moves the value of every weight and of the     *)
(* bias by exactly -rate * clamp(grad, -1, 1): by -rate when grad > 1, by  *)
(* +rate when grad < -1, by -rate * grad otherwise; grads are unchanged.   *)
(***************************************************************************)
Moved(old, rate) ==
    IF RLess(One, old.grad) THEN RSub(old.val, rate)
    ELSE IF RLess(old.grad, Rat(-1)) THEN RAdd(old.val, rate)
    ELSE RSub(old.val, RMul(rate, old.grad))

C4_ClippedUpdate ==
    [][lastCall'.op = "update_params" =>
          \A h \in NeuronParams(net) :
              /\ nodes'[h].val = Moved(nodes[h], lastCall'.args[1])
              /\ nodes'[h].grad = nodes[h].grad]_vars

C4_Witness ==
    /\ lastCall.op = "update_params"
    /\ lastCall.args[1] = <<1, 10>>
    /\ \E h \in NeuronParams(net) : nodes[h].grad = Rat(5)
    /\ \E h \in NeuronParams(net) : nodes[h].grad = <<1, 2>>

RECURSIVE Activation(_, _, _, _)
Activation(ns, neuron, x, i) ==
    IF i = 0 THEN ns[neuron.b].val
    ELSE RAdd(Activation(ns, neuron, x, i - 1), RMul(ns[neuron.w[i]].val, ns[x[i]].val))

C6_ZeroGradFrame ==
    [][(lastCall'.op = "zero_grad" /\ env'.ncalls = env.ncalls + 1) =>
          /\ net' = net
          /\ Len(nodes') = Len(nodes)
          /\ \A h \in 1..Len(nodes) :
                /\ nodes'[h].val = nodes[h].val
                /\ nodes'[h].op = nodes[h].op
                /\ nodes'[h].children = nodes[h].children
                /\ h \in MLPParams(net) => nodes'[h].grad = Zero
                /\ h \notin MLPParams(net) => nodes'[h].grad = nodes[h].grad
          /\ MLP_zero_grad(nodes', net, 1) = nodes']_vars

\* zero_grad has just run after a backward pass that reached parameters of
\* both layers, and a node of the forward graph still carries its grad
C6_Witness ==
    /\ lastCall.op = "zero_grad"
    /\ Len(net.layers) = 2
    /\ \A l \in 1..2 : \E h \in NeuronParams(net.layers[l].neurons[1]) :
          /\ calls # <<>>
          /\ calls[h] > 0
          /\ nodes[h].grad = Zero
    /\ \E h \in 1..Len(nodes) :
          /\ h \notin MLPParams(net)
          /\ nodes[h].op = "Tanh"
          /\ nodes[h].grad # Zero

(***************************************************************************)
(* Node::backward_pass as a function of the heap: the local rule of h,     *)
(* then backward_pass on each child in order.                              *)
(***************************************************************************)
RECURSIVE backward_pass(_, _), BackwardChildren(_, _, _)
backward_pass(ns, h) == BackwardChildren(LocalRule(ns, h), ns[h].children, 1)
BackwardChildren(ns, children, k) ==
    IF k > Len(children) THEN ns
    ELSE BackwardChildren(backward_pass(ns, children[k]), children, k + 1)

\* the example's own pass: the same graph with every grad at 0, the loss
\* seeded with 1, one backward_pass from the loss
OwnPass(ns, loss) ==
    backward_pass(set_grad([h \in 1..Len(ns) |-> [ns[h] EXCEPT !.grad = Zero]], loss, One), loss)

(***************************************************************************)
(* C8: in the training loop every weight and bias has grad 0 whenever an   *)
(* example's forward pass is about to begin, however many examples came    *)
(* before; and when update_params is about to run, the grad of every       *)
(* weight and bias is exactly what this example's backward pass alone      *)
(* produces.                                                               *)
(***************************************************************************)
C8_FreshGrads ==
    /\ pc \in {"epoch", "example", "forward"} =>
          \A h \in MLPParams(net) : nodes[h].grad = Zero
    /\ pc = "returned" =>
          \A h \in MLPParams(net) : nodes[h].grad = OwnPass(nodes, env.loss)[h].grad

\* a later example is about to be updated: an earlier example has moved a
\* weight, and this example's pass has produced a nonzero grad
C8_Witness ==
    /\ pc = "returned"
    /\ env.examples >= 1
    /\ \E h \in MLPParams(net) : nodes[h].grad # Zero
    /\ \E h \in MLPParams(net) : \A k \in 1..Len(InitVals) : nodes[h].val # InitVals[k]

(***************************************************************************)
(* C9: the op and the children of a node never change once the node is     *)
(* constructed, and a value changes only in update_params and only on a    *)
(* weight or bias, which has no children; construction, forward, set_grad, *)
(* backward_pass and zero_grad change no existing node's value.            *)
(***************************************************************************)
C9_ValueFrame ==
    [][\A h \in 1..Len(nodes) :
          h <= Len(nodes') =>
             /\ nodes'[h].op = nodes[h].op
             /\ nodes'[h].children = nodes[h].children
             /\ nodes'[h].val # nodes[h].val =>
                   /\ lastCall'.op = "update_params"
                   /\ h \in MLPParams(net)
                   /\ nodes[h].children = <<>>
                   /\ nodes[h].op = "None"]_vars

\* update_params has just moved a weight, in an example after the first
C9_Witness ==
    /\ lastCall.op = "update_params"
    /\ pc = "zero"
    /\ env.examples >= 1
    /\ \E h \in MLPParams(net) : \A k \in 1..Len(InitVals) : nodes[h].val # InitVals[k]

====
